---- MODULE Spec2Model ----
(***************************************************************************)
(* Model of one balancing cycle of src/main.py (class ProxmoxBalance):     *)
(* __init__, regenerate_lists, calculate_imbalance / get_totals, the gate  *)
(* in balance, balance_pass with calculate_best_host, and run_migrate.     *)
(*                                                                         *)
(* Node names and workload names are naturals.  node_list is a Python      *)
(* dict: its key order (node_order) is the order in which the inventory    *)
(* returned the nodes; node_list[n]['vms'] is a dict too, kept here as the *)
(* sequence of its keys (vms[n]) and the points of each entry (vm_points). *)
(* Load points are naturals; the average used points, a float in the code, *)
(* is kept exact as the pair (total_used_points, total_nodes) and every    *)
(* comparison with it is cross-multiplied by total_nodes.                  *)
(***************************************************************************)
EXTENDS Integers, Sequences, FiniteSets, TLC

\* ---------------------------------------------------------------- bounds
MaxNodes == 3
MaxVMs == 4
MaxPoints == 1
MaxAllowed == 1

\* config['allowed_disparity'] when the configuration file does not set it.
DefaultAllowedDisparity == 20

NodeNames == 1..MaxNodes
VMNames == 1..MaxVMs
\* A workload name that no inventory ever lists.
UnknownVM == MaxVMs + 1
\* calculate_best_host's new_host = False.
NoHost == 0

VARIABLES
    pc,                \* position of balance(): see the actions
    dry,               \* self.dry
    allowed_disparity, \* self.config['allowed_disparity']
    separate,          \* self.config['rules']['separate'], each rule split on ','
    node_order,        \* keys of self.node_list, in insertion order
    used_points,       \* node |-> self.node_list[node]['used_points']
    vms,               \* node |-> keys of self.node_list[node]['vms'], in order
    vm_points,         \* workload |-> its ['points'] in the vms dict holding it
    vm_list,           \* self.vm_list
    not_running,       \* names the inventory listed with a status other than running
    cursor,            \* balance_pass: index of the (node, vm) iteration to run
    operations,        \* balance_pass: the list it accumulates and returns
    next_op,           \* balance: index of the operation to hand to run_migrate
    reported,          \* operations run_migrate has printed ("Moving ...")
    calls,             \* migrate.post calls issued to the collaborator
    error              \* the uncaught exception that ended the cycle, or "none"

vars == <<pc, dry, allowed_disparity, separate, node_order, used_points, vms,
          vm_points, vm_list, not_running, cursor, operations, next_op,
          reported, calls, error>>

\* ---------------------------------------------------------------- helpers
Abs(x) == IF x < 0 THEN -x ELSE x

Range(s) == {s[i] : i \in 1..Len(s)}

RECURSIVE SumOver(_, _)
SumOver(f, S) ==
    IF S = {} THEN 0
    ELSE LET x == CHOOSE y \in S : TRUE IN f[x] + SumOver(f, S \ {x})

Reverse(s) == [i \in 1..Len(s) |-> s[Len(s) + 1 - i]]

Ascending(n) == [i \in 1..n |-> i]

\* list.sort(key=itemgetter('points')): stable, ascending.
RECURSIVE SortByPoints(_)
InsertByPoints(sorted, e) ==
    LET k == Cardinality({i \in 1..Len(sorted) : sorted[i].points <= e.points})
    IN  SubSeq(sorted, 1, k) \o <<e>> \o SubSeq(sorted, k + 1, Len(sorted))
SortByPoints(s) ==
    IF s = <<>> THEN <<>>
    ELSE InsertByPoints(SortByPoints(SubSeq(s, 1, Len(s) - 1)), s[Len(s)])

\* ---------------------------------------------------------------- inputs
\* The order in which proxmox.nodes.get() lists the nodes.
NodeOrders ==
    UNION {{Ascending(n), Reverse(Ascending(n))} : n \in 0..MaxNodes}

\* One workload of an inventory.  A workload that is not running is dropped
\* by regenerate_lists before anything else of it is read, so its node and
\* figures are not enumerated: it is listed by the first node, with the
\* largest figures (host NoHost: no node to list it).
VMEntries(order) ==
    {[status |-> "stopped",
      host |-> IF order = <<>> THEN NoHost ELSE order[1],
      points |-> MaxPoints]}
    \cup [status : {"running"}, host : Range(order), points : 0..MaxPoints]

Inventories ==
    UNION {[order : {o}, vm : [VMNames -> VMEntries(o)]] : o \in NodeOrders}

\* The reference inventory: node 1 hosts workloads 1 (50 points) and 2 (30),
\* node 2 hosts workload 3 (20).
ScenarioVMs ==
    [v \in VMNames |->
        IF v = 1 THEN [status |-> "running", host |-> 1, points |-> 50]
        ELSE IF v = 2 THEN [status |-> "running", host |-> 1, points |-> 30]
        ELSE IF v = 3 THEN [status |-> "running", host |-> 2, points |-> 20]
        ELSE [status |-> "stopped", host |-> NoHost, points |-> 0]]

ScenarioInventories ==
    IF MaxNodes >= 2 /\ MaxVMs >= 3
    THEN {[order |-> <<1, 2>>, vm |-> ScenarioVMs],
          [order |-> <<2, 1>>, vm |-> ScenarioVMs]}
    ELSE {}

AllowedValues == (0..MaxAllowed) \cup {DefaultAllowedDisparity}

\* rules.separate: no rule, or one rule naming two workloads: two of the
\* inventory, or one of the inventory and a name the inventory does not know.
\* (Workload 2 is neither the first nor the last name a node can list.)
RuleSets == {<<>>, <<{2, 3}>>, <<{2, UnknownVM}>>}

\* ---------------------------------------------------------------- __init__
Init ==
    /\ pc = "start"
    /\ dry \in BOOLEAN
    /\ allowed_disparity \in AllowedValues
    /\ separate \in RuleSets
    /\ node_order = <<>>
    /\ used_points = <<>>
    /\ vms = <<>>
    /\ vm_points = <<>>
    /\ vm_list = <<>>
    /\ not_running = {}
    /\ cursor = 1
    /\ operations = <<>>
    /\ next_op = 1
    /\ reported = <<>>
    /\ calls = <<>>
    /\ error = "none"

\* ---------------------------------------------------------------- regenerate_lists
\* Mutant of RunningOn: the status of a workload is not tested.
ListedOn(inv, node) ==
    SelectSeq(Ascending(MaxVMs), LAMBDA v : inv.vm[v].host = node)

\* The running workloads of a node, in the order qemu.get() lists them.
RunningOn(inv, node) ==
    SelectSeq(Ascending(MaxVMs),
              LAMBDA v : inv.vm[v].status = "running" /\ inv.vm[v].host = node)

RunningVMs(inv) == {v \in VMNames : inv.vm[v].status = "running"}

\* The workloads some node lists with another status.
NotRunning(inv) ==
    {v \in VMNames : /\ inv.vm[v].status # "running"
                     /\ inv.vm[v].host \in Range(inv.order)}

RECURSIVE BuildVmList(_, _)
BuildVmList(inv, i) ==
    IF i > Len(inv.order) THEN <<>>
    ELSE [k \in 1..Len(RunningOn(inv, inv.order[i])) |->
             [name |-> RunningOn(inv, inv.order[i])[k],
              node |-> inv.order[i],
              points |-> inv.vm[RunningOn(inv, inv.order[i])[k]].points]]
         \o BuildVmList(inv, i + 1)

RegenerateLists ==
    /\ pc = "start"
    /\ \E inv \in Inventories \cup ScenarioInventories :
        /\ node_order' = inv.order
        /\ vms' = [n \in Range(inv.order) |-> RunningOn(inv, n)]
        /\ vm_points' = [v \in RunningVMs(inv) |-> inv.vm[v].points]
        /\ used_points' =
             [n \in Range(inv.order) |->
                 SumOver([v \in VMNames |-> inv.vm[v].points],
                         Range(RunningOn(inv, n)))]
        /\ vm_list' = vm_list \o BuildVmList(inv, 1)
        /\ not_running' = NotRunning(inv)
    /\ pc' = "listed"
    /\ UNCHANGED <<dry, allowed_disparity, separate, cursor, operations,
                   next_op, reported, calls, error>>

\* ---------------------------------------------------------------- get_totals
\* (total_nodes, total_used_points); avg_points is their quotient, which the
\* code computes with true division and which does not exist for no nodes.
GetTotals(order, used) ==
    [total_nodes |-> Len(order),
     total_used_points |-> SumOver(used, Range(order))]

\* ---------------------------------------------------------------- calculate_imbalance
\* total_nodes * total_disparity, for total_nodes > 0:
\* the sum over the nodes of |avg_points - used_points|, times total_nodes.
ScaledDisparity(order, used) ==
    LET t == GetTotals(order, used)
        dev == [n \in Range(order) |->
                   Abs(t.total_used_points - t.total_nodes * used[n])]
    IN  SumOver(dev, Range(order))

\* get_totals divides by total_nodes.
GetTotalsRaises(order) == Len(order) = 0

\* The per-node percentage divides by avg_points.
PercentageRaises(order, used) ==
    /\ Len(order) > 0
    /\ GetTotals(order, used).total_used_points = 0

\* Mutant of GateTriggers: the gate also opens at the threshold.
GateTriggersAtThreshold(order, used, allowed) ==
    ScaledDisparity(order, used) >= Len(order) * Len(order) * allowed

\* balance: total_disparity > len(node_list) * allowed_disparity.
GateTriggers(order, used, allowed) ==
    ScaledDisparity(order, used) > Len(order) * Len(order) * allowed

\* ---------------------------------------------------------------- calculate_best_host
\* "Make sure we abide by the rules": skip, for one candidate node.
Skip(vmsMap, sep, node_name, vm_name) ==
    \E r \in 1..Len(sep) :
        /\ vm_name \in sep[r]
        /\ \E vm \in sep[r] : vm # vm_name /\ vm \in Range(vmsMap[node_name])

\* Mutant of Better: a candidate that only equals the source's load is taken.
BetterOrEqual(new_points, current_used, new_host_points) ==
    /\ new_points <= current_used
    /\ (new_points < new_host_points \/ new_host_points = 0)

\* Mutant of Better: the candidate's load is not compared with the source's.
BetterIgnoringSource(new_points, current_used, new_host_points) ==
    new_points < new_host_points \/ new_host_points = 0

\* The test that makes a candidate the new best host.
Better(new_points, current_used, new_host_points) ==
    /\ new_points < current_used
    /\ (new_points < new_host_points \/ new_host_points = 0)

\* The loop over node_list from its i-th key on, with the best host so far.
RECURSIVE BestHostFrom(_, _, _, _, _, _, _, _, _)
BestHostFrom(order, used, vmsMap, sep, current_node, vm_name, points, i, best) ==
    IF i > Len(order) THEN best.new_host
    ELSE LET node_name == order[i]
             new_points == used[node_name] + points
         IN  IF node_name = current_node
                THEN BestHostFrom(order, used, vmsMap, sep, current_node,
                                  vm_name, points, i + 1, best)
             ELSE IF Skip(vmsMap, sep, node_name, vm_name)
                THEN BestHostFrom(order, used, vmsMap, sep, current_node,
                                  vm_name, points, i + 1, best)
             ELSE IF Better(new_points, used[current_node], best.new_host_points)
                THEN BestHostFrom(order, used, vmsMap, sep, current_node,
                                  vm_name, points, i + 1,
                                  [new_host |-> node_name,
                                   new_host_points |-> new_points])
             ELSE BestHostFrom(order, used, vmsMap, sep, current_node,
                               vm_name, points, i + 1, best)

CalculateBestHost(order, used, vmsMap, sep, current_node, vm_name, points) ==
    BestHostFrom(order, used, vmsMap, sep, current_node, vm_name, points, 1,
                 [new_host |-> NoHost, new_host_points |-> 0])

\* ---------------------------------------------------------------- balance_pass
\* The (node, vm) pairs of the nested loops, in the order they are visited.
RECURSIVE IterationFrom(_, _, _)
IterationFrom(order, vmsMap, i) ==
    IF i > Len(order) THEN <<>>
    ELSE [k \in 1..Len(vmsMap[order[i]]) |->
             [node |-> order[i], vm |-> vmsMap[order[i]][k]]]
         \o IterationFrom(order, vmsMap, i + 1)

\* Mutant of Iteration: the loops run over the nodes a second time.
IterationTwice(order, vmsMap) ==
    IterationFrom(order, vmsMap, 1) \o IterationFrom(order, vmsMap, 1)

Iteration(order, vmsMap) == IterationFrom(order, vmsMap, 1)

\* Mutant of MoveUsed: the source is not debited.
MoveUsedNoDebit(used, node_name, target, points) ==
    [used EXCEPT ![target] = @ + points]

\* Mutant of MoveUsed: the target is not credited.
MoveUsedNoCredit(used, node_name, target, points) ==
    [used EXCEPT ![node_name] = @ - points]

\* used_points after a move of `points` from node_name to target.
MoveUsed(used, node_name, target, points) ==
    [used EXCEPT ![node_name] = @ - points, ![target] = @ + points]

\* One iteration of the inner loop, on the working state st = (used, ops).
PassStep(order, vmsMap, pts, sep, st, it) ==
    LET points == pts[it.vm]
        target == CalculateBestHost(order, st.used, vmsMap, sep,
                                    it.node, it.vm, points)
    IN  IF target # NoHost
        THEN [used |-> MoveUsed(st.used, it.node, target, points),
              ops |-> Append(st.ops, [vm_name |-> it.vm, host |-> it.node,
                                      target |-> target])]
        ELSE st

\* The whole pass from iteration i on: what balance_pass returns and leaves.
RECURSIVE PassFrom(_, _, _, _, _, _)
PassFrom(order, vmsMap, pts, sep, st, i) ==
    IF i > Len(Iteration(order, vmsMap)) THEN st
    ELSE PassFrom(order, vmsMap, pts, sep,
                  PassStep(order, vmsMap, pts, sep, st,
                           Iteration(order, vmsMap)[i]),
                  i + 1)

\* ---------------------------------------------------------------- balance
\* calculate_imbalance -> get_totals raises ZeroDivisionError: no nodes.
ImbalanceNoNodes ==
    /\ pc = "listed"
    /\ GetTotalsRaises(node_order)
    /\ pc' = "crashed"
    /\ error' = "ZeroDivisionError in get_totals"
    /\ UNCHANGED <<dry, not_running, allowed_disparity, separate, node_order, used_points,
                   vms, vm_points, vm_list, cursor, operations, next_op,
                   reported, calls>>

\* calculate_imbalance raises ZeroDivisionError: avg_points is zero.
ImbalanceNoLoad ==
    /\ pc = "listed"
    /\ PercentageRaises(node_order, used_points)
    /\ pc' = "crashed"
    /\ error' = "ZeroDivisionError in calculate_imbalance"
    /\ UNCHANGED <<dry, not_running, allowed_disparity, separate, node_order, used_points,
                   vms, vm_points, vm_list, cursor, operations, next_op,
                   reported, calls>>

\* The gate is closed: "Acceptable overall imbalance, not running balance."
GateAcceptable ==
    /\ pc = "listed"
    /\ ~GetTotalsRaises(node_order)
    /\ ~PercentageRaises(node_order, used_points)
    /\ ~GateTriggers(node_order, used_points, allowed_disparity)
    /\ pc' = "acceptable"
    /\ UNCHANGED <<dry, not_running, allowed_disparity, separate, node_order, used_points,
                   vms, vm_points, vm_list, cursor, operations, next_op,
                   reported, calls, error>>

\* The gate is open: balance_pass starts (vm_list ordered, operations = []).
BalancePassBegin ==
    /\ pc = "listed"
    /\ ~GetTotalsRaises(node_order)
    /\ ~PercentageRaises(node_order, used_points)
    /\ GateTriggers(node_order, used_points, allowed_disparity)
    /\ vm_list' = Reverse(SortByPoints(vm_list))
    /\ operations' = <<>>
    /\ cursor' = 1
    /\ pc' = "planning"
    /\ UNCHANGED <<dry, not_running, allowed_disparity, separate, node_order, used_points,
                   vms, vm_points, next_op, reported, calls, error>>

\* One iteration of balance_pass's inner loop.
BalancePassStep ==
    /\ pc = "planning"
    /\ cursor <= Len(Iteration(node_order, vms))
    /\ LET st == PassStep(node_order, vms, vm_points, separate,
                          [used |-> used_points, ops |-> operations],
                          Iteration(node_order, vms)[cursor])
       IN  /\ used_points' = st.used
           /\ operations' = st.ops
    /\ cursor' = cursor + 1
    /\ UNCHANGED <<pc, dry, not_running, allowed_disparity, separate, node_order, vms,
                   vm_points, vm_list, next_op, reported, calls, error>>

\* balance_pass returns operations; balance starts its loop over them.
BalancePassReturn ==
    /\ pc = "planning"
    /\ cursor > Len(Iteration(node_order, vms))
    /\ pc' = "executing"
    /\ next_op' = 1
    /\ UNCHANGED <<dry, not_running, allowed_disparity, separate, node_order, used_points,
                   vms, vm_points, vm_list, cursor, operations, reported,
                   calls, error>>

\* ---------------------------------------------------------------- run_migrate
\* Mutant of MigrateCall: the request names the source node as its target.
MigrateCallToSource(operation) ==
    [node |-> operation.host, vm |-> operation.vm_name,
     target |-> operation.host, online |-> 1]

\* Mutant of MigrateCall: the request is sent to the target node.
MigrateCallOnTarget(operation) ==
    [node |-> operation.target, vm |-> operation.vm_name,
     target |-> operation.target, online |-> 1]

\* The request run_migrate builds for an operation.
MigrateCall(operation) ==
    [node |-> operation.host, vm |-> operation.vm_name,
     target |-> operation.target, online |-> 1]

\* Dry mode: the move is printed and nothing is sent.
RunMigrateDry ==
    /\ pc = "executing"
    /\ next_op <= Len(operations)
    /\ dry
    /\ reported' = Append(reported, operations[next_op])
    /\ next_op' = next_op + 1
    /\ UNCHANGED <<pc, dry, not_running, allowed_disparity, separate, node_order,
                   used_points, vms, vm_points, vm_list, cursor, operations,
                   calls, error>>

\* The move is printed, migrate.post is called and returns.
RunMigrateOk ==
    /\ pc = "executing"
    /\ next_op <= Len(operations)
    /\ ~dry
    /\ reported' = Append(reported, operations[next_op])
    /\ calls' = Append(calls, MigrateCall(operations[next_op]))
    /\ next_op' = next_op + 1
    /\ UNCHANGED <<pc, dry, not_running, allowed_disparity, separate, node_order,
                   used_points, vms, vm_points, vm_list, cursor, operations,
                   error>>

\* The move is printed, migrate.post is called and raises: nothing in
\* run_migrate or balance catches it.
RunMigrateFails ==
    /\ pc = "executing"
    /\ next_op <= Len(operations)
    /\ ~dry
    /\ reported' = Append(reported, operations[next_op])
    /\ calls' = Append(calls, MigrateCall(operations[next_op]))
    /\ pc' = "crashed"
    /\ error' = "migrate.post failed"
    /\ UNCHANGED <<dry, not_running, allowed_disparity, separate, node_order, used_points,
                   vms, vm_points, vm_list, cursor, operations, next_op>>

\* The loop over operations is exhausted; balance returns.
BalanceReturn ==
    /\ pc = "executing"
    /\ next_op > Len(operations)
    /\ pc' = "done"
    /\ UNCHANGED <<dry, not_running, allowed_disparity, separate, node_order, used_points,
                   vms, vm_points, vm_list, cursor, operations, next_op,
                   reported, calls, error>>

Next ==
    \/ RegenerateLists
    \/ ImbalanceNoNodes
    \/ ImbalanceNoLoad
    \/ GateAcceptable
    \/ BalancePassBegin
    \/ BalancePassStep
    \/ BalancePassReturn
    \/ RunMigrateDry
    \/ RunMigrateOk
    \/ RunMigrateFails
    \/ BalanceReturn

Spec == Init /\ [][Next]_vars

\* ---------------------------------------------------------------- properties
Nodes == Range(node_order)
Running == DOMAIN vm_points

\* The node whose vms dict lists the workload (its placement before the pass).
HostOf(v) == CHOOSE n \in Nodes : v \in Range(vms[n])

\* Where the workload is once the operations emitted so far are applied in order.
FinalHost(v) ==
    LET idx == {i \in 1..Len(operations) : operations[i].vm_name = v}
    IN  IF idx = {} THEN HostOf(v)
        ELSE operations[CHOOSE i \in idx : \A j \in idx : j <= i].target

\* balance_pass has returned its list.
PassReturned == pc = "executing" \/ pc = "done" \/ error = "migrate.post failed"

\* used_points as regenerate_lists leaves them: the points of the vms listed.
InitialUsed == [n \in Nodes |-> SumOver(vm_points, Range(vms[n]))]

TotalUsed == SumOver(used_points, Nodes)

\* C1: starting from a placement in which no anti-affinity group has two
\* members on one node, once the operations of a pass are applied in order no
\* two workloads of one group are on the same node.
InitiallySeparated ==
    \A r \in 1..Len(separate) : \A a, b \in separate[r] \cap Running :
        a # b => HostOf(a) # HostOf(b)

C1_AntiAffinitySafe ==
    (PassReturned /\ InitiallySeparated) =>
        \A r \in 1..Len(separate) : \A a, b \in separate[r] \cap Running :
            a # b => FinalHost(a) # FinalHost(b)

\* C2: for every operation the pass emits, the target's used points plus the
\* workload's points, which are the target's used points right after the
\* move, are strictly below the source's used points right before the move.
C2_LocalImprovement ==
    [][(pc = "planning" /\ Len(operations') = Len(operations) + 1) =>
          LET op == operations'[Len(operations')]
          IN  /\ used_points[op.target] + vm_points[op.vm_name]
                    < used_points[op.host]
              /\ used_points'[op.target]
                    = used_points[op.target] + vm_points[op.vm_name]
              /\ used_points'[op.target] < used_points[op.host]]_vars

C2_Witness ==
    /\ pc = "planning"
    /\ Len(operations) >= 2

\* C3: the sum of used_points over the nodes stays what it was when the
\* cluster state was built: before the pass, after each move, after the pass.
C3_Conservation ==
    pc # "start" => TotalUsed = SumOver(vm_points, Running)

C3_Witness ==
    /\ pc = "executing"
    /\ Len(operations) >= 2
    /\ TotalUsed > 0

\* C4: the planner starts only when total disparity exceeds node count times
\* allowed disparity; otherwise the cycle ends at once, with no operation, no
\* relocation call and used_points untouched.
C4_GateOpen ==
    ScaledDisparity(node_order, used_points)
        > Len(node_order) * Len(node_order) * allowed_disparity

C4_Gate ==
    [][/\ (pc = "listed" /\ pc' = "planning") => C4_GateOpen
       /\ (pc # "planning" /\ pc' = "planning") => pc = "listed"
       /\ (pc = "listed" /\ ~C4_GateOpen) =>
              /\ pc' \in {"acceptable", "crashed"}
              /\ operations' = <<>> /\ calls' = <<>> /\ reported' = <<>>
              /\ used_points' = used_points
       /\ pc \notin {"acceptable", "crashed"}]_vars

C4_Witness ==
    /\ pc = "acceptable"
    /\ ScaledDisparity(node_order, used_points) > 0
    /\ operations = <<>> /\ calls = <<>>

\* C5: in dry mode no relocation call is issued and every planned operation
\* is reported; otherwise exactly one relocation call is issued per operation.
C5_DryRun ==
    /\ dry => calls = <<>>
    /\ (dry /\ pc = "done") => reported = operations
    /\ (~dry /\ pc \in {"done", "crashed"}) =>
           /\ Len(calls) = Len(operations)
           /\ \A i \in 1..Len(calls) : calls[i] = MigrateCall(operations[i])

\* C6: the pass emits the same operation list whatever the order in which the
\* inventory listed the nodes and each node's workloads.
RECURSIVE Perms(_)
Perms(S) ==
    IF S = {} THEN {<<>>}
    ELSE UNION {{<<x>> \o q : q \in Perms(S \ {x})} : x \in S}

RECURSIVE VmsOrders(_)
VmsOrders(S) ==
    IF S = {} THEN {<<>>}
    ELSE LET n == CHOOSE m \in S : TRUE
         IN  {[k \in S |-> IF k = n THEN q ELSE f[k]] :
                 q \in Perms(Range(vms[n])), f \in VmsOrders(S \ {n})}

C6_OrderIndependent ==
    (pc = "executing" /\ next_op = 1) =>
        \A o \in Perms(Nodes) : \A vo \in VmsOrders(Nodes) :
            PassFrom(o, vo, vm_points, separate,
                     [used |-> InitialUsed, ops |-> <<>>], 1).ops = operations

\* C7: the reference scenario.
IsScenario ==
    /\ pc \notin {"start"}
    /\ Nodes = {1, 2}
    /\ vms = (1 :> <<1, 2>>) @@ (2 :> <<3>>)
    /\ vm_points = (1 :> 50) @@ (2 :> 30) @@ (3 :> 20)
    /\ separate = <<>>
    /\ allowed_disparity = 20

MoveXtoB == [vm_name |-> 1, host |-> 1, target |-> 2]
MoveZtoA == [vm_name |-> 3, host |-> 2, target |-> 1]

\* As claimed: the gate opens and the pass emits the single operation X: A -> B,
\* leaving A = 30 and B = 70.
C7_ScenarioAsClaimed ==
    IsScenario =>
        /\ pc # "acceptable" /\ error \in {"none", "migrate.post failed"}
        /\ PassReturned =>
               /\ operations = <<MoveXtoB>>
               /\ used_points = (1 :> 30) @@ (2 :> 70)

\* C7 amended: the gate opens (60 > 40); when node_list lists B before A the
\* pass emits the single operation X: A -> B and leaves A = 30, B = 70; when it
\* lists A before B the pass emits X: A -> B and then Z: B -> A and leaves
\* A = 50, B = 50.
C7_Scenario ==
    IsScenario =>
        /\ pc # "acceptable" /\ error \in {"none", "migrate.post failed"}
        /\ pc = "listed" =>
               /\ ScaledDisparity(node_order, used_points) = 2 * 60
               /\ C4_GateOpen
        /\ (PassReturned /\ node_order = <<2, 1>>) =>
               /\ operations = <<MoveXtoB>>
               /\ used_points = (1 :> 30) @@ (2 :> 70)
        /\ (PassReturned /\ node_order = <<1, 2>>) =>
               /\ operations = <<MoveXtoB, MoveZtoA>>
               /\ used_points = (1 :> 50) @@ (2 :> 50)

C7_Witness ==
    /\ IsScenario
    /\ pc = "executing"
    /\ node_order = <<1, 2>>
    /\ Len(operations) = 2

\* C8: a failed relocation call does not stop the loop over the operations:
\* when the cycle ends, every operation of the list has been attempted.
C8_FailureDoesNotStop ==
    (~dry /\ pc \in {"done", "crashed"}) =>
        /\ reported = operations
        /\ Len(calls) = Len(operations)

\* C9: a rule naming a workload that is not in the cluster state aborts
\* planning: no operation is emitted and no relocation call is made.
C9_UnknownAborts ==
    (\E r \in 1..Len(separate) : \E v \in separate[r] : v \notin VMNames) =>
        /\ operations = <<>>
        /\ calls = <<>>
        /\ pc # "planning" /\ pc # "executing"

\* C10: with no nodes the cycle is rejected before any averaging: it ends in
\* an error that is not a division by zero, without reaching the planner,
\* producing an operation or making a relocation call.
C10_NoNodesRejected ==
    (pc \notin {"start", "listed"} /\ Len(node_order) = 0) =>
        /\ pc = "crashed"
        /\ error # "ZeroDivisionError in get_totals"
        /\ operations = <<>>
        /\ calls = <<>>

\* C11: with exactly one node, whatever its used points, the cycle ends
\* normally: total disparity 0, the gate stays closed, the plan is empty.
C11_SingleNode ==
    (Len(node_order) = 1 /\ pc \notin {"start", "listed"}) =>
        /\ pc = "acceptable"
        /\ error = "none"
        /\ ScaledDisparity(node_order, used_points) = 0
        /\ operations = <<>>
        /\ calls = <<>>

\* C12: relocation calls are issued one at a time, the i-th call for the
\* i-th operation of the returned list (its source node, its workload, its
\* target, online = 1), and only once balance_pass has returned the list.
C12_ExecutorOrder ==
    [][calls' # calls =>
          /\ pc = "executing"
          /\ operations' = operations
          /\ Len(calls) < Len(operations)
          /\ calls' = Append(calls,
                 [node |-> operations[Len(calls) + 1].host,
                  vm |-> operations[Len(calls) + 1].vm_name,
                  target |-> operations[Len(calls) + 1].target,
                  online |-> 1])]_vars

C12_Witness ==
    /\ Len(calls) >= 2
    /\ pc = "done"

\* C13: a workload whose status is not running is in no node's vms, adds
\* nothing to used_points and is the workload of no operation.
C13_OnlyRunningCount ==
    pc # "start" =>
        /\ \A v \in not_running : \A n \in Nodes : v \notin Range(vms[n])
        /\ \A v \in not_running : v \notin Running
        /\ pc = "listed" =>
               \A n \in Nodes :
                   used_points[n] =
                       SumOver(vm_points, Range(vms[n]) \ not_running)
        /\ \A i \in 1..Len(operations) :
               operations[i].vm_name \notin not_running

C13_Witness ==
    /\ not_running # {}
    /\ Len(operations) >= 1
    /\ pc = "executing"

\* C14: the pass handles the workloads in descending order of points: in the
\* operation list no workload comes after one with fewer points, and the
\* iterations already run are in that order too.
C14_LargestFirst ==
    /\ \A i, j \in 1..Len(operations) :
           i < j => vm_points[operations[i].vm_name]
                        >= vm_points[operations[j].vm_name]
    /\ pc = "planning" =>
           \A i, j \in 1..(cursor - 1) :
               i < j => vm_points[Iteration(node_order, vms)[i].vm]
                            >= vm_points[Iteration(node_order, vms)[j].vm]

\* C15: calculate_best_host returns, among the candidates that are not the
\* source, not excluded by a rule and eligible (projected < source used), one
\* of smallest projected value, the lowest node name among equals; and no
\* host exactly when no candidate is eligible.
C15_Eligible(it) ==
    {n \in Nodes :
        /\ n # it.node
        /\ ~\E r \in 1..Len(separate) :
              /\ it.vm \in separate[r]
              /\ \E w \in separate[r] : w # it.vm /\ w \in Range(vms[n])
        /\ used_points[n] + vm_points[it.vm] < used_points[it.node]}

C15_Expected(it) ==
    IF C15_Eligible(it) = {} THEN NoHost
    ELSE CHOOSE n \in C15_Eligible(it) :
            \A m \in C15_Eligible(it) :
                \/ used_points[n] < used_points[m]
                \/ (used_points[n] = used_points[m] /\ n <= m)

C15_BestTarget ==
    (pc = "planning" /\ cursor <= Len(Iteration(node_order, vms))) =>
        LET it == Iteration(node_order, vms)[cursor]
        IN  CalculateBestHost(node_order, used_points, vms, separate,
                              it.node, it.vm, vm_points[it.vm])
                = C15_Expected(it)

\* C16: once a move is recorded, and at the end of the pass, every node's
\* used_points is the sum of the points of the workloads recorded on it.
C16_NodeAccounting ==
    pc # "start" =>
        \A n \in Nodes : used_points[n] = SumOver(vm_points, Range(vms[n]))

\* C17: one pass evaluates every running workload exactly once: a workload
\* is in at most one operation and the list is no longer than the number of
\* running workloads, also when a workload moves to a node listed later.
C17_Evaluated == {Iteration(node_order, vms)[i].vm : i \in 1..(cursor - 1)}

C17_SingleConsideration ==
    /\ \A i, j \in 1..Len(operations) :
           i < j => operations[i].vm_name # operations[j].vm_name
    /\ Len(operations) <= Cardinality(Running)
    /\ pc = "planning" =>
           /\ Cardinality(C17_Evaluated) = cursor - 1
           /\ \A i \in 1..Len(operations) :
                  operations[i].vm_name \in C17_Evaluated
    /\ PassReturned =>
           /\ cursor - 1 = Cardinality(Running)
           /\ C17_Evaluated = Running

C17_Position(n) == CHOOSE k \in 1..Len(node_order) : node_order[k] = n

C17_Witness ==
    /\ pc = "executing"
    /\ \E i \in 1..Len(operations) :
           C17_Position(operations[i].target) > C17_Position(operations[i].host)
    /\ Len(operations) >= 2

\* C18: no step of the pass increases total disparity or the largest
\* used_points of the cluster, so neither is larger after the pass.
C18_MaxUsed(used) ==
    CHOOSE x \in {used[n] : n \in Nodes} : \A n \in Nodes : used[n] <= x

C18_MonotoneSkew ==
    [][pc = "planning" =>
          /\ ScaledDisparity(node_order, used_points')
                <= ScaledDisparity(node_order, used_points)
          /\ C18_MaxUsed(used_points') <= C18_MaxUsed(used_points)]_vars

C18_Witness ==
    /\ pc = "executing"
    /\ Len(operations) >= 2
    /\ ScaledDisparity(node_order, used_points)
          < ScaledDisparity(node_order, InitialUsed)
    /\ C18_MaxUsed(used_points) < C18_MaxUsed(InitialUsed)

\* C19: every relocation request is sent to the node the workload is on at
\* that moment (its first node, or the target of the last earlier request
\* for it), names another node as target, and run_migrate finds the workload
\* in the vms dict of the operation's source node.
C19_ActualHost(i) ==
    LET earlier == {j \in 1..(i - 1) : calls[j].vm = calls[i].vm}
    IN  IF earlier = {} THEN HostOf(calls[i].vm)
        ELSE calls[CHOOSE j \in earlier : \A k \in earlier : k <= j].target

C19_ValidSource ==
    /\ \A i \in 1..Len(calls) :
           /\ calls[i].node = C19_ActualHost(i)
           /\ calls[i].node # calls[i].target
           /\ calls[i].target \in Nodes
    /\ \A i \in 1..Len(reported) :
           /\ reported[i].host \in Nodes
           /\ reported[i].vm_name \in Range(vms[reported[i].host])
           /\ reported[i].host # reported[i].target

C19_Witness ==
    /\ Len(calls) >= 2
    /\ pc = "done"
    /\ calls[1].target = calls[2].node

====
